---- MODULE Spec2Model ----
(***************************************************************************)
(* One aggregation pass of nodeatlas' child-map cache (cache.go):          *)
(* GetAllFromChildMaps loads the hostname-to-ID table, starts one          *)
(* goroutine per configured address, every goroutine fetches a remote      *)
(* listing, resolves the origins of the listing through the shared         *)
(* sourceToID map and appends its nodes to the shared slice; the caller    *)
(* waits on finishChan and hands the slice to CacheNodes.                  *)
(***************************************************************************)
EXTENDS Integers, Sequences, FiniteSets

\* ------------------------------------------------------------------ bounds
\* Largest number of configured child map addresses (goroutines of a pass).
MaxAddrs == 2
\* Largest number of nodes in one remote's listing, all origin labels together.
MaxListing == 2

\* Hostnames of child maps, as configured and as origin labels of listings.
Hosts == {"a", "b"}
\* The origin labels a listing can use: "local" and hostnames.
Labels == {"local"} \cup Hosts
\* Task (goroutine) identifiers: task i is the one started by iteration i.
Tasks == 1..MaxAddrs

\* The Go nil error.
NoErr == "nil"
\* Errors the store can report.
ErrQuery == "ErrQuery"
ErrPrepare == "ErrPrepare"
ErrExec == "ErrExec"

VARIABLES
    addresses,    \* the argument of GetAllFromChildMaps
    cached_maps,  \* the store's table cached_maps: hostname -> id
    nodes_cached, \* the store's table nodes_cached: the rows written
    storeErr,     \* the error the store's last call reported (NoErr when none)
    mainpc,       \* position of GetAllFromChildMaps
    err,          \* its named result
    sourceToID,   \* the map shared by the goroutines
    sourceMutex,  \* sync.RWMutex: [r |-> readers holding it, w |-> writer holds it]
    nodesMutex,   \* sync.Mutex guarding nodes: TRUE when held
    nodes,        \* the slice all goroutines append to
    address,      \* the range variable of the spawning loop, shared by the closures
    next,         \* index of the next element of addresses the loop visits
    workers,      \* counter of the waiting loop
    pc,           \* position of each goroutine
    taddress,     \* appendNodesFromChildMap's parameter address, per goroutine
    status,       \* resp.StatusCode of the goroutine's request ("" without a response)
    jresp,        \* what the goroutine's request returned
    pending,      \* keys of jresp.Data the range loop has not visited yet
    rangeKey,     \* the key of jresp.Data the range loop is at
    source,       \* the loop's variable source
    tnodes,       \* GetAllFromChildMap's result slice under construction
    remote,       \* for each hostname, the answers its /api/all can give
    pass,         \* the number of the call of GetAllFromChildMaps in progress
    firstIDs,     \* sourceToID as the first call left it
    fpc,          \* position of CacheFormatNodes
    fnodes,       \* the argument of CacheFormatNodes
    findex,       \* index of the next element of fnodes its loop visits
    idSources,    \* its map idSources
    sourceMaps,   \* its named result sourceMaps: [made |-> not nil, groups |-> the map]
    ferr          \* its named result err

vars == <<addresses, cached_maps, nodes_cached, storeErr, mainpc, err, sourceToID,
          sourceMutex, nodesMutex, nodes, address, next, workers, pc,
          taddress, status, jresp, pending, rangeKey, source, tnodes,
          remote, pass, firstIDs, fpc, fnodes, findex, idSources, sourceMaps, ferr>>

mainVars == <<mainpc, err, address, next, workers, nodes_cached, storeErr>>
taskVars == <<taddress, status, jresp, pending, rangeKey, source, tnodes>>
lockVars == <<sourceMutex, nodesMutex>>
passVars == <<pass, firstIDs>>
formatVars == <<fpc, fnodes, findex, idSources, sourceMaps, ferr>>
storeVars == <<addresses, cached_maps, remote, passVars, formatVars>>
callVars == <<addresses, cached_maps, remote, passVars, nodes_cached, storeErr, mainpc, err,
              sourceToID, nodes, address, next, workers, pc, taskVars, lockVars>>

\* ------------------------------------------------------------------ helpers
\* The empty Go map / a map not made yet.
EmptyMap == [h \in {} |-> 0]

\* len(m) of a Go map.
MapLen(m) == Cardinality(DOMAIN m)

\* m[k] = v on a Go map: insert or overwrite.
MapSet(m, k, v) == [h \in DOMAIN m \cup {k} |-> IF h = k THEN v ELSE m[h]]

\* A map is injective when no two keys share a value.
Injective(m) == \A h, g \in DOMAIN m : m[h] = m[g] => h = g

\* Hostnames the store may already know when the pass starts.
KnownHosts == {"a"}

\* The contents of the table cached_maps the pass may find: hostnames with
\* distinct positive ids, numbered so that no id exceeds the number of
\* entries of the loaded map ("local" included).
CachedMapsStates ==
    UNION { { m \in [S -> 1..(Cardinality(S) + 1)] : Injective(m) } : S \in SUBSET KnownHosts }

\* The configured address lists: up to MaxAddrs hostnames.
AddressLists == UNION { [1..n -> Hosts] : n \in 0..MaxAddrs }

\* The number of nodes of a "data" object.
RECURSIVE DataLen(_)
DataLen(d) ==
    IF DOMAIN d = {} THEN 0
    ELSE LET key == CHOOSE k \in DOMAIN d : TRUE
         IN  d[key] + DataLen([k \in DOMAIN d \ {key} |-> d[k]])

\* The "data" object of a listing: origin label -> number of nodes listed
\* under it (at least one), of at most MaxListing nodes in all.
DataMaps ==
    { d \in UNION { [S -> 1..MaxListing] : S \in SUBSET Labels } : DataLen(d) <= MaxListing }

\* HTTP status codes of a response: a success and a non-success one.
StatusOK == "200"
StatusCodes == {StatusOK, "500"}

\* The "data" objects of the bodies sent with a non-success status: a
\* listing of at most one node.
ErrorStatusData == { d \in DataMaps : DataLen(d) <= 1 }

\* What one request to /api/all can come to: a transport error (no
\* response), or a response with a status code and a body; the body does
\* not decode, or decodes with its error field set (its data field may hold
\* anything), or decodes with no error.
Responses ==
    { [kind |-> "neterr", status |-> "", Data |-> EmptyMap] }
    \cup { [kind |-> "decodeerr", status |-> c, Data |-> EmptyMap] : c \in StatusCodes }
    \cup { [kind |-> k, status |-> StatusOK, Data |-> d] :
                k \in {"remoteerr", "ok"}, d \in DataMaps }
    \cup { [kind |-> k, status |-> c, Data |-> d] :
                k \in {"remoteerr", "ok"}, c \in StatusCodes \ {StatusOK}, d \in ErrorStatusData }

NoResponse == [kind |-> "none", Data |-> EmptyMap]

\* The value of a local string variable that holds nothing.
None == ""

\* ------------------------------------------------------------------ store
\* The table loaded without the entry for "local".
GetMapSourceToIDNoLocal(rows) == rows

\* DB.GetMapSourceToID: "local" -> 0, then every row of cached_maps.
GetMapSourceToID(rows) ==
    [h \in {"local"} \cup DOMAIN rows |-> IF h \in DOMAIN rows THEN rows[h] ELSE 0]

\* Unix times: the time a remote retrieved the nodes it cached, and the
\* later time of the commit.
UnixTimes == <<1, 2>>
RemoteRetrieved == UnixTimes[1]
TimeNow == UnixTimes[2]

\* A retrieval time that ignores the node's own.
RetrievedAlwaysNow(n, now) == now

\* retrieved := node.RetrieveTime; if retrieved == 0 { retrieved = now }
Retrieved(n, now) == IF n.RetrieveTime = 0 THEN now ELSE n.RetrieveTime

\* The row CacheNodes writes for one node: the arguments of stmt.Exec in
\* the order of the statement's columns.
Row(n) ==
    [address |-> n.Addr, owner |-> n.OwnerName, lat |-> n.Latitude, lon |-> n.Longitude,
     status |-> n.Status, source |-> n.SourceID, retrieved |-> Retrieved(n, TimeNow)]

\* The rows written by a loop that goes on after the failing Exec.
CacheNodesRowsSkipping(ns, failAt) ==
    IF failAt = 0 THEN <<>>
    ELSE [i \in 1..(Len(ns) - (IF failAt <= Len(ns) THEN 1 ELSE 0))
            |-> Row(ns[IF i < failAt THEN i ELSE i + 1])]

\* DB.CacheNodes when the store fails at step failAt: 0 is Prepare, i in
\* 1..Len(ns) is the Exec of node i, Len(ns)+1 is no failure. The rows
\* written are those of the nodes before the failing one.
CacheNodesRows(ns, failAt) ==
    [i \in 1..(IF failAt = 0 THEN 0 ELSE IF failAt > Len(ns) THEN Len(ns) ELSE failAt - 1)
        |-> Row(ns[i])]

CacheNodesErr(ns, failAt) ==
    IF failAt = 0 THEN ErrPrepare ELSE IF failAt > Len(ns) THEN NoErr ELSE ErrExec

\* ------------------------------------------------------------------ fetch
\* The fetch with the check of the decoded error field left out.
FetchFailsIgnoringErrorField(resp) == resp.kind \in {"neterr", "decodeerr"}

\* GetAllFromChildMap returns nil: http.Get failed, the body did not decode,
\* or the decoded body has its error field set.
FetchFails(resp) == resp.kind # "ok"

\* The source a key of jresp.Data is resolved as: "local" is replaced by the
\* address fetched from, as long as replacedLocal is false.
EffectiveSource(key, addr, replacedLocal) ==
    IF ~replacedLocal /\ key = "local" THEN addr ELSE key

\* replacedLocal is declared and never assigned: it is false throughout.
replacedLocal == FALSE

\* id, ok := (*sourceToID)[src]: a missing key reads as the zero value.
Lookup(m, src) ==
    [ok |-> src \in DOMAIN m, id |-> IF src \in DOMAIN m THEN m[src] ELSE 0]

\* The id given to a source that was not found in the map.
NewID(m) == MapLen(m) + 1

\* The RetrieveTime a remote lists a node with: none (zero) for its own
\* nodes, under "local", and the time it retrieved them for those it cached.
ListedRetrieveTime(key) == IF key = "local" THEN 0 ELSE RemoteRetrieved

\* remoteNodes taken from the last node of the list to the first.
StampedReversed(t, key, src, id) ==
    [k \in 1..jresp[t].Data[key] |->
        [ptr |-> <<t, key, jresp[t].Data[key] + 1 - k>>, Addr |-> <<src, jresp[t].Data[key] + 1 - k>>,
         OwnerName |-> <<"owner", src, jresp[t].Data[key] + 1 - k>>,
         Latitude |-> <<"lat", src, jresp[t].Data[key] + 1 - k>>,
         Longitude |-> <<"lon", src, jresp[t].Data[key] + 1 - k>>,
         Status |-> <<"status", src, jresp[t].Data[key] + 1 - k>>,
         SourceID |-> id, RetrieveTime |-> ListedRetrieveTime(key)]]

\* remoteNodes of goroutine t under key, every node's SourceID set to id.
\* ptr is the identity of the *Node; Addr is the node's address, the same
\* from whichever remote the node of origin src is listed, and so are the
\* owner, the coordinates and the status.
Stamped(t, key, src, id) ==
    [k \in 1..jresp[t].Data[key] |->
        [ptr |-> <<t, key, k>>, Addr |-> <<src, k>>,
         OwnerName |-> <<"owner", src, k>>,
         Latitude |-> <<"lat", src, k>>, Longitude |-> <<"lon", src, k>>,
         Status |-> <<"status", src, k>>,
         SourceID |-> id, RetrieveTime |-> ListedRetrieveTime(key)]]

\* An append that drops the nodes whose address the destination holds.
AppendDedup(dst, src) ==
    dst \o SelectSeq(src, LAMBDA n : \A i \in DOMAIN dst : dst[i].Addr # n.Addr)

\* append(dst, src...)
Append2(dst, src) == dst \o src

\* Where the goroutine goes after one iteration of the range loop (or after
\* decoding): on to the next key, or out of GetAllFromChildMap with a
\* non-nil slice, to the append under dstMutex.
AfterIteration(keys) == IF keys = {} THEN "dstlock" ELSE "range"

\* What the goroutine holds of the response: a failed fetch returns before
\* anything of the body is used.
Decoded(resp) ==
    IF FetchFails(resp) THEN [kind |-> resp.kind, Data |-> EmptyMap]
    ELSE [kind |-> resp.kind, Data |-> resp.Data]

\* A nil result ending the goroutine without the send on finishChan.
AfterFetchNoSignal(resp) ==
    IF FetchFails(resp) THEN "finished" ELSE AfterIteration(DOMAIN resp.Data)

\* Where the goroutine goes after GetAllFromChildMap returned: a nil result
\* returns from appendNodesFromChildMap, and the closure sends on finishChan.
AfterFetch(resp) ==
    IF FetchFails(resp) THEN "send" ELSE AfterIteration(DOMAIN resp.Data)

\* ------------------------------------------------------------------ Init
\* CacheFormatNodes not called.
NoFormatCall ==
    /\ fpc = "idle"
    /\ fnodes = <<>>
    /\ findex = 1
    /\ idSources = EmptyMap
    /\ sourceMaps = [made |-> FALSE, groups |-> EmptyMap]
    /\ ferr = NoErr

\* The goroutines of a call of GetAllFromChildMaps before the call starts
\* them, and the locks the call declares.
NoGoroutines ==
    /\ sourceMutex = [r |-> 0, w |-> FALSE]
    /\ nodesMutex = FALSE
    /\ pc = [t \in Tasks |-> "unspawned"]
    /\ taddress = [t \in Tasks |-> None]
    /\ status = [t \in Tasks |-> None]
    /\ jresp = [t \in Tasks |-> NoResponse]
    /\ pending = [t \in Tasks |-> {}]
    /\ rangeKey = [t \in Tasks |-> None]
    /\ source = [t \in Tasks |-> None]
    /\ tnodes = [t \in Tasks |-> <<>>]

\* GetAllFromChildMaps called and not started.
CallStart ==
    /\ mainpc = "load"
    /\ err = NoErr
    /\ storeErr = NoErr
    /\ sourceToID = EmptyMap
    /\ nodes = <<>>
    /\ address = None
    /\ next = 1
    /\ workers = 0
    /\ NoGoroutines

Init ==
    /\ addresses \in AddressLists
    /\ cached_maps \in CachedMapsStates
    /\ remote = [h \in Hosts |-> Responses]
    /\ pass = 1
    /\ firstIDs = EmptyMap
    /\ NoFormatCall
    /\ nodes_cached = <<>>
    /\ CallStart

\* ------------------------------------------------------------------ GetAllFromChildMaps
\* Db.GetMapSourceToID() succeeds: the map is made and the loop starts.
LoadRegistry ==
    /\ mainpc = "load"
    /\ sourceToID' = GetMapSourceToID(cached_maps)
    /\ mainpc' = "spawn"
    /\ UNCHANGED <<err, address, next, workers, nodes_cached, storeErr, nodes, pc>>
    /\ UNCHANGED <<taskVars, lockVars, storeVars>>

\* The load's error noted, and the pass going on with the loop all the same.
LoadRegistryFailsIgnored ==
    /\ mainpc = "load"
    /\ storeErr' = ErrQuery
    /\ err' = storeErr'
    /\ sourceToID' = GetMapSourceToID(EmptyMap)
    /\ mainpc' = "spawn"
    /\ UNCHANGED <<address, next, workers, nodes_cached, nodes, pc>>
    /\ UNCHANGED <<taskVars, lockVars, storeVars>>

\* Db.GetMapSourceToID() fails: GetAllFromChildMaps returns the error.
LoadRegistryFails ==
    /\ mainpc = "load"
    /\ storeErr' = ErrQuery
    /\ err' = storeErr'
    /\ mainpc' = "done"
    /\ UNCHANGED <<sourceToID, address, next, workers, nodes_cached, nodes, pc>>
    /\ UNCHANGED <<taskVars, lockVars, storeVars>>

\* One iteration of "for _, address := range addresses": the range variable
\* is assigned and a goroutine is started. The closure refers to the range
\* variable itself, which all iterations share.
Spawn ==
    /\ mainpc = "spawn"
    /\ next <= Len(addresses)
    /\ address' = addresses[next]
    /\ pc' = [pc EXCEPT ![next] = "start"]
    /\ next' = next + 1
    /\ UNCHANGED <<mainpc, err, workers, nodes_cached, storeErr, nodes, sourceToID>>
    /\ UNCHANGED <<taskVars, lockVars, storeVars>>

\* The counter started one short of the number of goroutines.
InitialWorkersShort(addrs) == Len(addrs) - 1

\* The initial value of the waiting loop's counter.
InitialWorkers(addrs) == Len(addrs)

\* The spawning loop ends and the waiting loop is initialised.
StartWaiting ==
    /\ mainpc = "spawn"
    /\ next > Len(addresses)
    /\ workers' = InitialWorkers(addresses)
    /\ mainpc' = "wait"
    /\ UNCHANGED <<err, address, next, nodes_cached, storeErr, nodes, sourceToID, pc>>
    /\ UNCHANGED <<taskVars, lockVars, storeVars>>

\* "<-finishChan" meets goroutine t's "finishChan <- nil": the channel is
\* unbuffered, so the send and the receive are one step.
Receive(t) ==
    /\ mainpc = "wait"
    /\ workers > 0
    /\ pc[t] = "send"
    /\ pc' = [pc EXCEPT ![t] = "finished"]
    /\ workers' = workers - 1
    /\ UNCHANGED <<mainpc, err, address, next, nodes_cached, storeErr, nodes, sourceToID>>
    /\ UNCHANGED <<taskVars, lockVars, storeVars>>

\* The waiting loop ends.
StopWaiting ==
    /\ mainpc = "wait"
    /\ workers <= 0
    /\ mainpc' = "commit"
    /\ UNCHANGED <<err, address, next, workers, nodes_cached, storeErr, nodes, sourceToID, pc>>
    /\ UNCHANGED <<taskVars, lockVars, storeVars>>

\* return Db.CacheNodes(nodes)
Commit ==
    /\ mainpc = "commit"
    /\ \E failAt \in 0..(Len(nodes) + 1) :
          /\ nodes_cached' = nodes_cached \o CacheNodesRows(nodes, failAt)
          /\ storeErr' = CacheNodesErr(nodes, failAt)
          /\ err' = storeErr'
    /\ mainpc' = "done"
    /\ UNCHANGED <<address, next, workers, nodes, sourceToID, pc>>
    /\ UNCHANGED <<taskVars, lockVars, storeVars>>

\* ------------------------------------------------------------------ goroutines
\* The goroutine starts: it reads the shared range variable as the argument
\* of appendNodesFromChildMap, and GetAllFromChildMap requests and decodes
\* the listing of that address. The read is not synchronised with the
\* loop's writes: it yields the element of any iteration from the one that
\* started the goroutine to the last, whichever the loop has reached.
TaskGet(t) ==
    /\ pc[t] = "start"
    /\ taddress' = [taddress EXCEPT ![t] = address]
    /\ \E resp \in remote[address] :
          /\ status' = [status EXCEPT ![t] = resp.status]
          /\ jresp' = [jresp EXCEPT ![t] = Decoded(resp)]
          /\ pending' = [pending EXCEPT ![t] = IF FetchFails(resp) THEN {} ELSE DOMAIN resp.Data]
          /\ pc' = [pc EXCEPT ![t] = AfterFetch(resp)]
    /\ UNCHANGED <<rangeKey, source, tnodes, sourceToID, nodes>>
    /\ UNCHANGED <<mainVars, lockVars, storeVars>>

\* The range loop takes a key of jresp.Data (Go visits a map's keys in no
\* fixed order), replaces "local", and takes the read lock.
TaskRLock(t) ==
    /\ pc[t] = "range"
    /\ ~sourceMutex.w
    /\ \E key \in pending[t] :
          /\ rangeKey' = [rangeKey EXCEPT ![t] = key]
          /\ source' = [source EXCEPT ![t] = EffectiveSource(key, taddress[t], replacedLocal)]
          /\ pending' = [pending EXCEPT ![t] = pending[t] \ {key}]
    /\ sourceMutex' = [sourceMutex EXCEPT !.r = @ + 1]
    /\ pc' = [pc EXCEPT ![t] = "rlocked"]
    /\ UNCHANGED <<taddress, status, jresp, tnodes, sourceToID, nodes, nodesMutex>>
    /\ UNCHANGED <<mainVars, storeVars>>

\* id, ok := (*sourceToID)[source]; RUnlock. A known source's nodes are
\* stamped and appended to the result; an unknown one goes on to Lock.
TaskRead(t) ==
    /\ pc[t] = "rlocked"
    /\ sourceMutex' = [sourceMutex EXCEPT !.r = @ - 1]
    /\ IF Lookup(sourceToID, source[t]).ok
       THEN /\ tnodes' = [tnodes EXCEPT ![t] =
                   Append2(@, Stamped(t, rangeKey[t], source[t], Lookup(sourceToID, source[t]).id))]
            /\ rangeKey' = [rangeKey EXCEPT ![t] = None]
            /\ source' = [source EXCEPT ![t] = None]
            /\ pc' = [pc EXCEPT ![t] = AfterIteration(pending[t])]
       ELSE /\ pc' = [pc EXCEPT ![t] = "lock"]
            /\ UNCHANGED <<tnodes, rangeKey, source>>
    /\ UNCHANGED <<taddress, status, jresp, pending, sourceToID, nodes, nodesMutex>>
    /\ UNCHANGED <<mainVars, storeVars>>

\* sourceMutex.Lock()
TaskLock(t) ==
    /\ pc[t] = "lock"
    /\ sourceMutex.r = 0
    /\ ~sourceMutex.w
    /\ sourceMutex' = [sourceMutex EXCEPT !.w = TRUE]
    /\ pc' = [pc EXCEPT ![t] = "locked"]
    /\ UNCHANGED <<sourceToID, nodes, nodesMutex>>
    /\ UNCHANGED <<mainVars, taskVars, storeVars>>

\* id = len(*sourceToID) + 1; (*sourceToID)[source] = id; Unlock; then the
\* nodes are stamped with id and appended to the result.
TaskWrite(t) ==
    /\ pc[t] = "locked"
    /\ sourceToID' = MapSet(sourceToID, source[t], NewID(sourceToID))
    /\ sourceMutex' = [sourceMutex EXCEPT !.w = FALSE]
    /\ tnodes' = [tnodes EXCEPT ![t] =
          Append2(@, Stamped(t, rangeKey[t], source[t], NewID(sourceToID)))]
    /\ rangeKey' = [rangeKey EXCEPT ![t] = None]
    /\ source' = [source EXCEPT ![t] = None]
    /\ pc' = [pc EXCEPT ![t] = AfterIteration(pending[t])]
    /\ UNCHANGED <<taddress, status, jresp, pending, nodes, nodesMutex>>
    /\ UNCHANGED <<mainVars, storeVars>>

\* dstMutex.Lock()
TaskDstLock(t) ==
    /\ pc[t] = "dstlock"
    /\ ~nodesMutex
    /\ nodesMutex' = TRUE
    /\ pc' = [pc EXCEPT ![t] = "dstlocked"]
    /\ UNCHANGED <<sourceToID, nodes, sourceMutex>>
    /\ UNCHANGED <<mainVars, taskVars, storeVars>>

\* An append of one node for each time the lock is taken.
TaskAppendOneByOne(t) ==
    /\ pc[t] = "dstlocked"
    /\ nodes' = IF tnodes[t] = <<>> THEN nodes ELSE Append(nodes, Head(tnodes[t]))
    /\ tnodes' = [tnodes EXCEPT ![t] = IF tnodes[t] = <<>> THEN <<>> ELSE Tail(tnodes[t])]
    /\ nodesMutex' = FALSE
    /\ pc' = [pc EXCEPT ![t] = IF Len(tnodes[t]) <= 1 THEN "send" ELSE "dstlock"]
    /\ UNCHANGED <<sourceToID, sourceMutex, taddress, status, jresp, pending, rangeKey, source>>
    /\ UNCHANGED <<mainVars, storeVars>>

\* *dst = append(*dst, nodes...); dstMutex.Unlock()
TaskAppend(t) ==
    /\ pc[t] = "dstlocked"
    /\ nodes' = Append2(nodes, tnodes[t])
    /\ nodesMutex' = FALSE
    /\ pc' = [pc EXCEPT ![t] = "send"]
    /\ UNCHANGED <<sourceToID, sourceMutex>>
    /\ UNCHANGED <<mainVars, taskVars, storeVars>>

Task(t) ==
    \/ TaskGet(t)
    \/ TaskRLock(t)
    \/ TaskRead(t)
    \/ TaskLock(t)
    \/ TaskWrite(t)
    \/ TaskDstLock(t)
    \/ TaskAppend(t)

Main ==
    \/ LoadRegistry
    \/ LoadRegistryFails
    \/ Spawn
    \/ StartWaiting
    \/ \E t \in Tasks : Receive(t)
    \/ StopWaiting
    \/ Commit

Next == Main \/ \E t \in Tasks : Task(t)

\* ------------------------------------------------------------------ two calls
\* The answers of the remotes of two successive calls: each remote lists
\* one node with success, and answers every request the same.
SteadyResponses ==
    { r \in Responses : r.kind = "ok" /\ r.status = StatusOK /\ DataLen(r.Data) = 1 }
SteadyRemotes == [Hosts -> { {r} : r \in SteadyResponses }]

TwoPassInit ==
    /\ addresses \in AddressLists
    /\ cached_maps \in CachedMapsStates
    /\ remote \in SteadyRemotes
    /\ pass = 1
    /\ firstIDs = EmptyMap
    /\ NoFormatCall
    /\ nodes_cached = <<>>
    /\ CallStart

\* GetAllFromChildMaps has returned and is called again with the same
\* addresses: the call's variables are new ones, the store's tables are as
\* the first call left them.
StartSecondPass ==
    /\ pass = 1
    /\ mainpc = "done"
    /\ pass' = pass + 1
    /\ firstIDs' = sourceToID
    /\ mainpc' = "load"
    /\ err' = NoErr
    /\ storeErr' = NoErr
    /\ sourceToID' = EmptyMap
    /\ nodes' = <<>>
    /\ address' = None
    /\ next' = 1
    /\ workers' = 0
    /\ sourceMutex' = [r |-> 0, w |-> FALSE]
    /\ nodesMutex' = FALSE
    /\ pc' = [t \in Tasks |-> "unspawned"]
    /\ taddress' = [t \in Tasks |-> None]
    /\ status' = [t \in Tasks |-> None]
    /\ jresp' = [t \in Tasks |-> NoResponse]
    /\ pending' = [t \in Tasks |-> {}]
    /\ rangeKey' = [t \in Tasks |-> None]
    /\ source' = [t \in Tasks |-> None]
    /\ tnodes' = [t \in Tasks |-> <<>>]
    /\ UNCHANGED <<addresses, cached_maps, remote, nodes_cached, formatVars>>

TwoPassNext == Next \/ StartSecondPass

TwoPassSpec == TwoPassInit /\ [][TwoPassNext]_vars

Spec == Init /\ [][Next]_vars

\* The Go scheduler runs every goroutine that can take a step, and every
\* request returns: each step of each goroutine and of the caller is taken
\* if it stays possible.
FairSpec == Spec /\ WF_vars(Main) /\ \A t \in Tasks : WF_vars(Task(t))

\* ------------------------------------------------------------------ CacheFormatNodes
MaxFormat == 3

\* The SourceID values of the nodes given to CacheFormatNodes: 0, the ids
\* cached_maps can hold, and one it never holds.
FormatIDs == 0..(Cardinality(KnownHosts) + 2)

\* The arguments of CacheFormatNodes: up to MaxFormat nodes; ptr is the
\* identity of the *Node.
FormatInputs ==
    UNION { { [i \in 1..n |-> [ptr |-> i, SourceID |-> ids[i]]] : ids \in [1..n -> FormatIDs] } :
            n \in 0..MaxFormat }

\* IDToSource[0] = "local", then IDToSource[id] = hostname for each row of
\* cached_maps (rows: hostname -> id, no two hostnames with one id).
GetMapIDToSource(rows) ==
    [id \in {0} \cup { rows[h] : h \in DOMAIN rows } |->
        IF \E h \in DOMAIN rows : rows[h] = id
        THEN CHOOSE h \in DOMAIN rows : rows[h] = id
        ELSE "local"]

\* idSources[id]: the zero value "" when the map has no such key.
IndexIDSources(m, id) == IF id \in DOMAIN m THEN m[id] ELSE ""

\* sourceMaps[hostname]: nil, of length 0, when the map has no such key.
IndexSourceMaps(m, hostname) == IF hostname \in DOMAIN m THEN m[hostname] ELSE <<>>

\* A grouping step that leaves nodes of an unknown id out.
GroupNodeKnownOnly(m, ids, node) ==
    IF node.SourceID \in DOMAIN ids
    THEN MapSet(m, ids[node.SourceID], Append(IndexSourceMaps(m, ids[node.SourceID]), node))
    ELSE m

\* One iteration of the loop of CacheFormatNodes:
\* sourceMaps[hostname] = append(sourceMaps[hostname], node).
GroupNode(m, ids, node) ==
    MapSet(m, IndexIDSources(ids, node.SourceID),
           Append(IndexSourceMaps(m, IndexIDSources(ids, node.SourceID)), node))

FormatInit ==
    /\ addresses = <<>>
    /\ cached_maps \in CachedMapsStates
    /\ remote = [h \in Hosts |-> Responses]
    /\ pass = 1
    /\ firstIDs = EmptyMap
    /\ nodes_cached = <<>>
    /\ CallStart
    /\ fpc = "call"
    /\ fnodes \in FormatInputs
    /\ findex = 1
    /\ idSources = EmptyMap
    /\ sourceMaps = [made |-> FALSE, groups |-> EmptyMap]
    /\ ferr = NoErr

\* db.GetMapIDToSource() succeeds and sourceMaps is made.
FormatLoad ==
    /\ fpc = "call"
    /\ idSources' = GetMapIDToSource(cached_maps)
    /\ sourceMaps' = [made |-> TRUE, groups |-> EmptyMap]
    /\ fpc' = "range"
    /\ UNCHANGED <<fnodes, findex, ferr>>
    /\ UNCHANGED callVars

\* db.GetMapIDToSource() fails: CacheFormatNodes returns the error, and
\* sourceMaps as it is, nil.
FormatLoadFails ==
    /\ fpc = "call"
    /\ ferr' = ErrQuery
    /\ fpc' = "returned"
    /\ UNCHANGED <<fnodes, findex, idSources, sourceMaps>>
    /\ UNCHANGED callVars

\* One iteration of "for _, node := range nodes".
FormatNode ==
    /\ fpc = "range"
    /\ findex <= Len(fnodes)
    /\ sourceMaps' = [sourceMaps EXCEPT !.groups = GroupNode(@, idSources, fnodes[findex])]
    /\ findex' = findex + 1
    /\ UNCHANGED <<fpc, fnodes, idSources, ferr>>
    /\ UNCHANGED callVars

\* The loop ends and CacheFormatNodes returns.
FormatReturn ==
    /\ fpc = "range"
    /\ findex > Len(fnodes)
    /\ fpc' = "returned"
    /\ UNCHANGED <<fnodes, findex, idSources, sourceMaps, ferr>>
    /\ UNCHANGED callVars

FormatNext ==
    \/ FormatLoad
    \/ FormatLoadFails
    \/ FormatNode
    \/ FormatReturn

FormatSpec == FormatInit /\ [][FormatNext]_vars

\* ------------------------------------------------------------------ properties
\* The registry has been loaded and the goroutines may run.
Loaded == mainpc \in {"spawn", "wait", "commit"} \/ (mainpc = "done" /\ err # ErrQuery)

\* The join barrier has been released.
Joined == mainpc = "commit" \/ (mainpc = "done" /\ err # ErrQuery)

\* The hostname a node of the merged slice is attributed to: the key it was
\* listed under, "local" standing for the address its goroutine fetched.
Origin(n) == EffectiveSource(n.ptr[2], taddress[n.ptr[1]], replacedLocal)

\* The nodes goroutine t's response lists, by identity.
Listed(t) ==
    UNION { { <<t, key, k>> : k \in 1..jresp[t].Data[key] } : key \in DOMAIN jresp[t].Data }

\* The identities of the nodes of a slice.
Ptrs(ns) == { ns[i].ptr : i \in DOMAIN ns }

\* Number of occurrences of x in a slice.
Count(ns, x) == Cardinality({ i \in DOMAIN ns : ns[i] = x })

\* Sum of f over the goroutines 1..n.
RECURSIVE SumTasks(_, _)
SumTasks(f, n) == IF n = 0 THEN 0 ELSE f[n] + SumTasks(f, n - 1)

\* C1: all nodes of the merged slice whose effective origin is the same
\* hostname carry the same SourceID, in every interleaving.
C1_SameHostSameID ==
    \A i, j \in DOMAIN nodes :
        Origin(nodes[i]) = Origin(nodes[j]) => nodes[i].SourceID = nodes[j].SourceID

\* C2: the hostname-to-ID map is injective in every reachable state.
C2_RegistryInjective == Injective(sourceToID)

\* C3: an entry of the map is never removed and its id never changed.
C3_RegistryStable ==
    [][\A h \in DOMAIN sourceToID :
          h \in DOMAIN sourceToID' /\ sourceToID'[h] = sourceToID[h]]_vars

\* C4: the id given to a source found absent is the number of entries the
\* map has at that moment.
C4_NewIDIsSize ==
    [][\A t \in Tasks :
          (pc[t] = "locked" /\ pc'[t] # "locked")
              => sourceToID'[source[t]] = MapLen(sourceToID)]_vars

\* C5: every goroutine fetches the address of the iteration that started it.
C5_OwnAddress ==
    \A t \in Tasks : pc[t] \notin {"unspawned", "start"} => taddress[t] = addresses[t]

\* C6: exactly Len(addresses) goroutines are started, the signals received
\* are those of the goroutines that finished, a goroutine's append is in the
\* merged slice when it signals, and the commit starts only after every
\* goroutine has signalled.
C6_JoinBarrier ==
    /\ \A t \in Tasks : pc[t] # "unspawned" => t <= Len(addresses) /\ t < next
    /\ mainpc = "wait" =>
          workers = Len(addresses) - Cardinality({ t \in Tasks : pc[t] = "finished" })
    /\ \A t \in Tasks : pc[t] \in {"send", "finished"} /\ jresp[t].kind = "ok"
          => Listed(t) \subseteq Ptrs(nodes)
    /\ Joined => \A t \in 1..Len(addresses) : pc[t] = "finished"

\* C6 witness: the barrier is released over two goroutines, one that failed
\* and one that appended nodes.
C6_Witness ==
    /\ mainpc = "commit"
    /\ Len(addresses) = 2
    /\ \E t, u \in Tasks :
          /\ jresp[t].kind # "ok"
          /\ jresp[u].kind = "ok" /\ Listed(u) # {}

\* C7: with every request returning and fair scheduling, the pass reaches
\* the end of GetAllFromChildMaps.
C7_Terminates == <>(mainpc = "done")

\* C7 witness: the pass ends after every goroutine of a full address list
\* fetched nothing.
C7_Witness ==
    /\ mainpc = "done"
    /\ Len(addresses) = MaxAddrs
    /\ \A t \in Tasks : pc[t] = "finished" /\ jresp[t].kind # "ok"

\* C8: once the barrier is released, a goroutine whose fetch failed has no
\* node in the batch, every node listed by a successful fetch is in it, and
\* the result of the pass is what the store reported, whatever the remotes did.
C8_PartialFailure ==
    /\ Joined =>
          \A t \in 1..Len(addresses) :
              IF jresp[t].kind = "ok"
              THEN Listed(t) \subseteq Ptrs(nodes)
              ELSE \A i \in DOMAIN nodes : nodes[i].ptr[1] # t
    /\ mainpc = "done" => err = storeErr

\* C8 witness: a pass ends without error although one remote failed, the
\* other remote's nodes being in the batch.
C8_Witness ==
    /\ mainpc = "done" /\ err = NoErr
    /\ \E t, u \in 1..Len(addresses) :
          /\ jresp[t].kind \in {"neterr", "decodeerr", "remoteerr"}
          /\ jresp[u].kind = "ok" /\ Listed(u) # {} /\ Listed(u) \subseteq Ptrs(nodes)

\* C9: at commit the merged slice holds every node of every successful
\* result exactly as often as the results hold it, and its length is the sum
\* of the results' lengths; nodes of equal address are all kept.
C9_MultisetUnion ==
    Joined =>
        /\ \A x \in { nodes[i] : i \in DOMAIN nodes }
                 \cup UNION { { tnodes[t][i] : i \in DOMAIN tnodes[t] } : t \in Tasks } :
              Count(nodes, x) = SumTasks([t \in Tasks |-> Count(tnodes[t], x)], MaxAddrs)
        /\ Len(nodes) = SumTasks([t \in Tasks |-> Len(tnodes[t])], MaxAddrs)
        /\ \A t \in Tasks : Len(tnodes[t]) = DataLen(jresp[t].Data)

\* C9 witness: two goroutines appended, and the merged slice holds two
\* nodes of the same address.
C9_Witness ==
    /\ mainpc = "commit"
    /\ \A t \in Tasks : Len(tnodes[t]) > 0
    /\ \E i, j \in DOMAIN nodes : i # j /\ nodes[i].Addr = nodes[j].Addr

\* C10: every node listed under "local" by the remote a goroutine fetched
\* carries the id the registry has for that remote's hostname, and not 0.
C10_LocalIsRemote ==
    \A t \in Tasks : \A i \in DOMAIN tnodes[t] :
        tnodes[t][i].ptr[2] = "local"
            => /\ tnodes[t][i].SourceID # 0
               /\ tnodes[t][i].SourceID = sourceToID[taddress[t]]

\* C11: once loaded, the registry maps "local" to 0 and no other hostname
\* to 0, and a lookup of "local" finds it, with id 0, so that resolving it
\* takes no write.
C11_LocalIsZero ==
    Loaded =>
        /\ "local" \in DOMAIN sourceToID
        /\ \A h \in DOMAIN sourceToID : sourceToID[h] = 0 <=> h = "local"
        /\ Lookup(sourceToID, "local") = [ok |-> TRUE, id |-> 0]

\* C11 witness: the barrier is released with two hostnames registered
\* beside "local", one at least discovered in the pass.
C11_Witness ==
    /\ mainpc = "commit"
    /\ MapLen(sourceToID) = 3
    /\ DOMAIN sourceToID # {"local"} \cup DOMAIN cached_maps

\* C12: the pass returns an error exactly when the store reported one, at
\* the load or at the batch write; a failed load starts no goroutine and
\* writes nothing; nothing else, a remote's failure included, sets the result.
C12_ReturnValue ==
    /\ mainpc # "done" => err = NoErr
    /\ mainpc = "done" => err = storeErr /\ err \in {NoErr, ErrQuery, ErrPrepare, ErrExec}
    /\ storeErr = ErrQuery =>
          /\ mainpc = "done" /\ err = ErrQuery
          /\ \A t \in Tasks : pc[t] = "unspawned"
          /\ nodes = <<>> /\ nodes_cached = <<>>
    /\ (mainpc = "done" /\ err = NoErr) => Len(nodes_cached) = Len(nodes)

\* C12 witness: the load fails for a full address list.
C12_Witness ==
    /\ mainpc = "done"
    /\ err = ErrQuery
    /\ Len(addresses) = MaxAddrs

\* C13: when the store fails at a record, the rows written are those of the
\* records before it, nothing after it is written, and the pass returns
\* that error; with no failure every record is written.
C13_StopsAtFailure ==
    (mainpc = "done" /\ Joined) =>
        /\ Len(nodes_cached) <= Len(nodes)
        /\ \A i \in DOMAIN nodes_cached : nodes_cached[i] = Row(nodes[i])
        /\ err = ErrExec => Len(nodes_cached) < Len(nodes)
        /\ err = ErrPrepare => Len(nodes_cached) = 0
        /\ err = NoErr => Len(nodes_cached) = Len(nodes)
        /\ err \in {NoErr, ErrPrepare, ErrExec}

\* C13 witness: the store fails in the middle of a batch, records written
\* before the failing one and records left after it.
C13_Witness ==
    /\ mainpc = "done"
    /\ err = ErrExec
    /\ Len(nodes_cached) > 0
    /\ Len(nodes_cached) + 1 < Len(nodes)

C15_RetrieveTime ==
    (mainpc = "done" /\ Joined) =>
        /\ \A i \in DOMAIN nodes_cached :
              /\ nodes[i].RetrieveTime # 0 => nodes_cached[i].retrieved = nodes[i].RetrieveTime
              /\ nodes[i].RetrieveTime = 0 => nodes_cached[i].retrieved = TimeNow
              /\ nodes_cached[i].retrieved # 0
              /\ nodes_cached[i].address = nodes[i].Addr
              /\ nodes_cached[i].owner = nodes[i].OwnerName
              /\ nodes_cached[i].lat = nodes[i].Latitude
              /\ nodes_cached[i].lon = nodes[i].Longitude
              /\ nodes_cached[i].status = nodes[i].Status
              /\ nodes_cached[i].source = nodes[i].SourceID
        /\ err = NoErr => Len(nodes_cached) = Len(nodes)

C15_Witness ==
    /\ mainpc = "done" /\ err = NoErr
    /\ \E i, j \in DOMAIN nodes_cached :
          /\ nodes[i].RetrieveTime = 0 /\ nodes_cached[i].retrieved = TimeNow
          /\ nodes[j].RetrieveTime = RemoteRetrieved /\ nodes_cached[j].retrieved = RemoteRetrieved

\* C16: a fetch whose body does not decode, or decodes with its error field
\* set, goes straight to its completion signal holding no node, and no step
\* of its goroutine changes the registry or the merged collection: no
\* hostname of the payload is registered, no node of it is appended.
C16_FailedFetchFrame ==
    [][\A t \in Tasks :
          jresp'[t].kind \in {"decodeerr", "remoteerr"} =>
              /\ pc'[t] \in {"send", "finished"}
              /\ tnodes'[t] = <<>>
              /\ \A i \in DOMAIN nodes' : nodes'[i].ptr[1] # t
              /\ pc'[t] # pc[t] => (sourceToID' = sourceToID /\ nodes' = nodes)]_vars

C16_Witness ==
    /\ mainpc = "commit"
    /\ \E t, u \in Tasks :
          /\ jresp[t].kind = "remoteerr" /\ status[t] = StatusOK
          /\ jresp[u].kind = "ok"
          /\ DOMAIN sourceToID = {"local", taddress[u]} /\ taddress[t] # taddress[u]
          /\ nodes # <<>> /\ \A i \in DOMAIN nodes : nodes[i].ptr[1] = u

\* C17: the nodes one goroutine took from one list of the decoded payload
\* stand in the merged collection in the order of that list (the payload's
\* "data" is a map of lists, and a list is the only order it has).
C17_ListOrder ==
    \A i, j \in DOMAIN nodes :
        (/\ nodes[i].ptr[1] = nodes[j].ptr[1]
         /\ nodes[i].ptr[2] = nodes[j].ptr[2]
         /\ nodes[i].ptr[3] < nodes[j].ptr[3]) => i < j

C17_Witness ==
    /\ mainpc = "commit" /\ Len(nodes) = MaxListing + 1
    /\ nodes[1].ptr[1] = MaxAddrs
    /\ \E i \in DOMAIN nodes : nodes[i].ptr[1] = 1 /\ nodes[i].ptr[3] = MaxListing

\* C19: in the merged collection the nodes of one goroutine form one
\* contiguous block, whichever way the goroutines interleave.
C19_ContiguousBlocks ==
    \A i, j, k \in DOMAIN nodes :
        (i < j /\ j < k /\ nodes[i].ptr[1] = nodes[k].ptr[1]) => nodes[j].ptr[1] = nodes[i].ptr[1]

C19_Witness ==
    /\ mainpc = "commit" /\ Len(nodes) = 2 * MaxListing
    /\ nodes[1].ptr[1] # nodes[Len(nodes)].ptr[1]

\* C18: in the second of two successive calls over the same remotes, with
\* the table cached_maps written by no one, every hostname the registry
\* holds has the id the first call's registry gave it.
C18_SameIDsNextPass ==
    (pass = 2 /\ Loaded) =>
        \A h \in DOMAIN firstIDs \cap DOMAIN sourceToID : sourceToID[h] = firstIDs[h]

\* The hostname cached_maps gives for an id: "local" for 0, "" for an id it
\* does not hold.
HostnameOf(id) ==
    IF \E h \in DOMAIN cached_maps : cached_maps[h] = id
    THEN CHOOSE h \in DOMAIN cached_maps : cached_maps[h] = id
    ELSE IF id = 0 THEN "local" ELSE ""

\* C20: CacheFormatNodes returns a partition of its argument: every node is
\* in exactly one group, once, the group is the one of the hostname the
\* table gives for the node's SourceID ("local" for 0), and a group holds
\* its nodes in the argument's order; when the table's load fails it
\* returns a nil grouping with the error.
C20_Partition ==
    fpc = "returned" =>
        /\ ferr = NoErr =>
              /\ sourceMaps.made
              /\ \A i \in DOMAIN fnodes :
                    /\ HostnameOf(fnodes[i].SourceID) \in DOMAIN sourceMaps.groups
                    /\ \A g \in DOMAIN sourceMaps.groups :
                          Cardinality({ k \in DOMAIN sourceMaps.groups[g] :
                                          sourceMaps.groups[g][k].ptr = i })
                            = IF g = HostnameOf(fnodes[i].SourceID) THEN 1 ELSE 0
              /\ \A g \in DOMAIN sourceMaps.groups :
                    /\ sourceMaps.groups[g] # <<>>
                    /\ \A k \in DOMAIN sourceMaps.groups[g] :
                          sourceMaps.groups[g][k] = fnodes[sourceMaps.groups[g][k].ptr]
                    /\ \A k, l \in DOMAIN sourceMaps.groups[g] :
                          k < l => sourceMaps.groups[g][k].ptr < sourceMaps.groups[g][l].ptr
        /\ ferr # NoErr => (~sourceMaps.made /\ sourceMaps.groups = EmptyMap /\ ferr = ErrQuery)

C20_Witness ==
    /\ fpc = "returned" /\ ferr = NoErr /\ Len(fnodes) = MaxFormat
    /\ DOMAIN sourceMaps.groups = {"local", ""}
    /\ Len(sourceMaps.groups["local"]) = 2
    /\ fnodes[2].SourceID # 0
    /\ cached_maps # EmptyMap

====
